---- MODULE Spec2Model ----
(***************************************************************************)
(* Model of the Ghost -> Bluesky bridge (src/main.py).                     *)
(*                                                                         *)
(* One FastAPI process serves the `webhook` coroutine on a single event    *)
(* loop.  Each webhook event is a coroutine that suspends at its two       *)
(* awaits (request.body(), request.json()) and then calls the blocking     *)
(* bridge.handle_webhook(), which runs post_to_bluesky() with its          *)
(* requests/time.sleep calls.  The only state shared between events is     *)
(* bridge.bluesky_session.                                                 *)
(*                                                                         *)
(* Environment: a createSession answer that passes raise_for_status()      *)
(* carries a JSON object with accessJwt and did; every such answer is a    *)
(* fresh credential, numbered 1, 2, 3, ...  (0 stands for None).           *)
(***************************************************************************)
EXTENDS Integers, Sequences, FiniteSets, TLC

\* ------------------------------------------------------------------ bounds
NumEvents == 2
Events == 1..NumEvents

\* inputs of format_post_text: titles of up to MaxTitle characters, urls of
\* up to MaxUrl characters, max_length up to MaxLen
MaxTitle == 5
MaxUrl == 2
MaxLen == 8

\* --------------------------------------------------------- program constants
\* mutant: one more attempt
max_retries_four == 3 + 1

max_retries == 3

\* outcome of session.post() that is an exception instead of a response
NetErr == 0
\* a request whose answer has not arrived yet (history only)
Pending == -1

\* what the record-creation endpoint may answer
WriteStatuses == {200, 201, 401, 500, NetErr}
\* what the session-creation endpoint may answer (401 stands for every
\* answer that makes create_bluesky_session() take its except branch)
AuthStatuses == {200, 401}

Headers == {"missing", "wrong", "ok"}
Types == {"post.published", "post.unpublished"}
\* the post of the event: absent; without url and slug; without title and
\* name; with a title that is a number; with a title and a url
Posts == {"none", "nourl", "notitle", "badtitle", "ok"}
\* a part of the request that the handler has not looked at yet
Unread == "unread"
NoRequest == [hdr |-> Unread, json |-> Unread, type |-> Unread, post |-> Unread]

VARIABLES
  pc,       \* position of each event's coroutine
  req,      \* the HTTP request of each event, as far as the handler has read it
  attempt,  \* loop variable of post_to_bluesky
  site,     \* which call of create_bluesky_session is running: 68 or 94
  jwt,      \* accessJwt read at line 76
  did,      \* did read at line 78
  ret,      \* value returned by handle_webhook
  retline,  \* line of the return statement that produced ret
  trace,    \* history: remote calls and sleeps of the running publish call
  pred,     \* history: `last` and the session as they were when this publish call started
  session,  \* bridge.bluesky_session (0 = None)
  last,     \* history: how the latest finished publish call ended
  http,     \* status of the HTTP response sent for each event (0 = none yet)
  ftitle,   \* format_post_text: title (a sequence of characters)
  furl,     \* format_post_text: url
  fmax,     \* format_post_text: max_length
  fout,     \* format_post_text: the returned text
  fpc       \* "off", "start", "formatted" (called directly), "handed" (called by the router)

bvars == <<pc, req, attempt, site, jwt, did, ret, retline, trace, pred, session, last, http>>
fvars == <<ftitle, furl, fmax, fout, fpc>>
vars == <<bvars, fvars>>

\* positions inside the blocking call bridge.handle_webhook(data)
SyncPcs == {"handle", "publish", "auth_call", "auth_wait", "loop", "build",
            "send", "write_wait", "sleeping", "returned"}

NoLast == [line |-> 0, cred |-> 0]
NoPred == [line |-> 0, cred |-> 0, held |-> 0]

\* mutant: handle_webhook runs on a worker thread (a plain `def webhook`)
ScheduledThreaded(e) == e \in Events

\* The coroutine of event e can run: `webhook` is async and calls
\* handle_webhook without awaiting, so nothing else runs on the event loop
\* until that call returns.
Scheduled(e) == \A o \in Events \ {e} : pc[o] \notin SyncPcs

\* mutant: the missing session is not noticed
NoSessionNever(s) == s < 0

\* not self.bluesky_session
NoSession(s) == s = 0

\* self.bluesky_session = response.json(): the credential just issued
NewSession(s) == s + 1

\* mutant: a failed authentication clears the session
FailedAuthSessionCleared(s) == 0

\* self.bluesky_session after the except branch of create_bluesky_session
FailedAuthSession(s) == s

\* mutant: every 2xx status is a success
IsSuccessAny2xx(status) == status \in 200..299

\* mutant: the created-status is taken for the success status
IsSuccessCreated(status) == status = 201

\* response.status_code == 200
IsSuccess(status) == status = 200

\* mutant: only the first attempt re-authenticates
CanReauthOnce(status, a) == status = 401 /\ a < 1

\* mutant: every 401 re-authenticates
CanReauthAlways(status, a) == status = 401

\* mutant: the final attempt re-authenticates too
CanReauthFinal(status, a) == status = 401 /\ a <= max_retries - 1

\* response.status_code == 401 and attempt < max_retries - 1
CanReauth(status, a) == status = 401 /\ a < max_retries - 1

\* response.raise_for_status() raises
Raises(status) == status >= 400

\* attempt < max_retries - 1 in the except branch
CanRetry(a) == a < max_retries - 1

\* mutant: a product instead of a power
BackoffLinear(a) == 2 * a

\* mutant: the exponent is off by one
BackoffNext(a) == 2 ^ (a + 1)

\* mutant: the same attempt is made again
NextAttemptSame(a) == a

\* for attempt in range(max_retries): the value of the next iteration
NextAttempt(a) == a + 1

\* time.sleep(2 ** attempt)
Backoff(a) == 2 ^ a

Entry(op, res, cred) == [op |-> op, res |-> res, cred |-> cred]

\* the answer to the request that is last in the history
Answered(t, res, cred) == [t EXCEPT ![Len(t)] = Entry(t[Len(t)].op, res, cred)]

BridgeInit ==
  /\ pc = [e \in Events |-> "new"]
  /\ req = [e \in Events |-> NoRequest]
  /\ attempt = [e \in Events |-> 0]
  /\ site = [e \in Events |-> 0]
  /\ jwt = [e \in Events |-> 0]
  /\ did = [e \in Events |-> 0]
  /\ ret = [e \in Events |-> FALSE]
  /\ retline = [e \in Events |-> 0]
  /\ trace = [e \in Events |-> <<>>]
  /\ pred = [e \in Events |-> NoPred]
  /\ session = 0
  /\ last = NoLast
  /\ http = [e \in Events |-> 0]

\* the server: no call of format_post_text is followed character by character
Init ==
  /\ BridgeInit
  /\ ftitle = <<>> /\ furl = <<>> /\ fmax = 0 /\ fout = <<>>
  /\ fpc = "off"


locals == <<attempt, site, jwt, did, ret, retline, trace, pred>>

\* the coroutine's frame is dropped when `webhook` ends
DropFrame(e) ==
  /\ attempt' = [attempt EXCEPT ![e] = 0]
  /\ site' = [site EXCEPT ![e] = 0]
  /\ jwt' = [jwt EXCEPT ![e] = 0]
  /\ did' = [did EXCEPT ![e] = 0]
  /\ ret' = [ret EXCEPT ![e] = FALSE]
  /\ retline' = [retline EXCEPT ![e] = 0]
  /\ trace' = [trace EXCEPT ![e] = <<>>]
  /\ pred' = [pred EXCEPT ![e] = NoPred]
  /\ req' = [req EXCEPT ![e] = NoRequest]

\* webhook, lines 163-167: a request arrives and the coroutine awaits its body
\* (events are numbered in the order of their arrival)
Arrive(e) ==
  /\ pc[e] = "new"
  /\ \A o \in Events : o < e => pc[o] # "new"
  /\ Scheduled(e)
  /\ pc' = [pc EXCEPT ![e] = "await_body"]
  /\ UNCHANGED <<req, locals, session, last, http>>

\* webhook, lines 168-181: the Authorization header is checked, then the
\* coroutine awaits the JSON body
AfterBody(e) ==
  /\ pc[e] = "await_body"
  /\ Scheduled(e)
  /\ \E h \in Headers :
       IF h # "ok"
         THEN /\ pc' = [pc EXCEPT ![e] = "done"]
              /\ http' = [http EXCEPT ![e] = 401]
              /\ DropFrame(e)
         ELSE /\ pc' = [pc EXCEPT ![e] = "await_json"]
              /\ req' = [req EXCEPT ![e].hdr = h]
              /\ UNCHANGED <<http, locals>>
  /\ UNCHANGED <<session, last>>

\* webhook, lines 181-186: the JSON is parsed and handle_webhook is called
AfterJson(e) ==
  /\ pc[e] = "await_json"
  /\ Scheduled(e)
  /\ \E j \in {"ok", "invalid"} :
       IF j # "ok"
         THEN /\ pc' = [pc EXCEPT ![e] = "done"]
              /\ http' = [http EXCEPT ![e] = 422]
              /\ DropFrame(e)
         ELSE /\ pc' = [pc EXCEPT ![e] = "handle"]
              /\ req' = [req EXCEPT ![e].json = j]
              /\ UNCHANGED <<http, locals>>
  /\ UNCHANGED <<session, last>>

\* a return statement of handle_webhook outside post_to_bluesky (157: the
\* except branch, reached when len(title) raises in format_post_text)
RouterReturn(e, line, val) ==
  /\ pc' = [pc EXCEPT ![e] = "returned"]
  /\ ret' = [ret EXCEPT ![e] = val]
  /\ retline' = [retline EXCEPT ![e] = line]
  /\ UNCHANGED <<attempt, site, jwt, did, trace, pred, session, last>>

\* a return statement of post_to_bluesky; handle_webhook (148-153) returns
\* the same value
PublishReturn(e, line, val, cred) ==
  /\ pc' = [pc EXCEPT ![e] = "returned"]
  /\ ret' = [ret EXCEPT ![e] = val]
  /\ retline' = [retline EXCEPT ![e] = line]
  /\ last' = [line |-> line, cred |-> cred]

\* mutant: every post.* event is taken for a publication
IsPublishedPrefix(ty) == ty \in {"post.published", "post.unpublished"}

\* not (data.get('type') != 'post.published')
IsPublished(ty) == ty = "post.published"

\* mutant: the post is tested where its path should be
NoUrlPathIgnored(po) == po = "none"

\* not url_path
NoUrlPath(po) == po = "nourl"

\* handle_webhook, lines 119-157
HandleWebhook(e) ==
  /\ pc[e] = "handle"
  /\ Scheduled(e)
  /\ \E ty \in Types, po \in Posts :
       /\ req' = [req EXCEPT ![e].type = ty, ![e].post = po]
       /\ IF ~IsPublished(ty) THEN RouterReturn(e, 126, TRUE)
          ELSE IF po = "none" THEN RouterReturn(e, 132, FALSE)
          ELSE IF NoUrlPath(po) THEN RouterReturn(e, 140, FALSE)
          ELSE IF po = "badtitle" THEN RouterReturn(e, 157, FALSE)
          ELSE /\ pc' = [pc EXCEPT ![e] = "publish"]
               /\ UNCHANGED <<locals, session, last>>
  /\ UNCHANGED http

\* post_to_bluesky, lines 67-72
PublishEnter(e) ==
  /\ pc[e] = "publish"
  /\ Scheduled(e)
  /\ pred' = [pred EXCEPT ![e] = [line |-> last.line, cred |-> last.cred, held |-> session]]
  /\ trace' = [trace EXCEPT ![e] = <<>>]
  /\ attempt' = [attempt EXCEPT ![e] = 0]
  /\ IF NoSession(session)
       THEN /\ pc' = [pc EXCEPT ![e] = "auth_call"]
            /\ site' = [site EXCEPT ![e] = 68]
       ELSE /\ pc' = [pc EXCEPT ![e] = "loop"]
            /\ UNCHANGED site
  /\ UNCHANGED <<jwt, did, ret, retline, session, last, req, http>>

\* create_bluesky_session, lines 50-57: the request is sent
AuthSend(e) ==
  /\ pc[e] = "auth_call"
  /\ Scheduled(e)
  /\ trace' = [trace EXCEPT ![e] = Append(@, Entry("auth", Pending, 0))]
  /\ pc' = [pc EXCEPT ![e] = "auth_wait"]
  /\ UNCHANGED <<attempt, site, jwt, did, ret, retline, pred, session, last, req, http>>

\* create_bluesky_session, lines 58-64, and what its caller does with the
\* result (lines 68-69 or 94-96)
AuthRecv(e) ==
  /\ pc[e] = "auth_wait"
  /\ Scheduled(e)
  /\ \E status \in AuthStatuses :
       IF ~Raises(status)
         THEN /\ session' = NewSession(session)
              /\ trace' = [trace EXCEPT ![e] = Answered(@, status, session')]
              /\ attempt' = [attempt EXCEPT ![e] = IF site[e] = 94 THEN NextAttempt(@) ELSE @]
              /\ pc' = [pc EXCEPT ![e] = "loop"]
              /\ UNCHANGED <<ret, retline, last>>
         ELSE /\ trace' = [trace EXCEPT ![e] = Answered(@, status, 0)]
              /\ session' = FailedAuthSession(session)
              /\ PublishReturn(e, IF site[e] = 94 THEN 95 ELSE 69, FALSE, session')
              /\ UNCHANGED attempt
  /\ UNCHANGED <<site, jwt, did, pred, req, http>>

\* post_to_bluesky, line 72 and line 106
ForNext(e) ==
  /\ pc[e] = "loop"
  /\ Scheduled(e)
  /\ IF attempt[e] < max_retries
       THEN /\ pc' = [pc EXCEPT ![e] = "build"]
            /\ UNCHANGED <<ret, retline, last>>
       ELSE PublishReturn(e, 106, FALSE, session)
  /\ UNCHANGED <<attempt, site, jwt, did, trace, pred, session, req, http>>

\* post_to_bluesky, line 76: the Authorization header is built
ReadCred(e) ==
  /\ pc[e] = "build"
  /\ Scheduled(e)
  /\ jwt' = [jwt EXCEPT ![e] = session]
  /\ pc' = [pc EXCEPT ![e] = "send"]
  /\ UNCHANGED <<attempt, site, did, ret, retline, trace, pred, session, last, req, http>>

\* post_to_bluesky, lines 74 and 77-87: the body is built and the request sent
WriteSend(e) ==
  /\ pc[e] = "send"
  /\ Scheduled(e)
  /\ did' = [did EXCEPT ![e] = session]
  /\ trace' = [trace EXCEPT ![e] = Append(@, Entry("write", Pending, jwt[e]))]
  /\ pc' = [pc EXCEPT ![e] = "write_wait"]
  /\ UNCHANGED <<attempt, site, jwt, ret, retline, pred, session, last, req, http>>

\* post_to_bluesky, lines 99-105: the except branch
Except(e, t) ==
  IF CanRetry(attempt[e])
    THEN /\ trace' = [trace EXCEPT ![e] = Append(t, Entry("sleep", Backoff(attempt[e]), 0))]
         /\ pc' = [pc EXCEPT ![e] = "sleeping"]
         /\ UNCHANGED <<attempt, site, ret, retline, last>>
    ELSE /\ trace' = [trace EXCEPT ![e] = t]
         /\ PublishReturn(e, 105, FALSE, session)
         /\ UNCHANGED <<attempt, site>>

\* post_to_bluesky, lines 74 and 88-105: the answer to the write arrives
WriteRecv(e) ==
  /\ pc[e] = "write_wait"
  /\ Scheduled(e)
  /\ \E status \in WriteStatuses :
       LET t == Answered(trace[e], status, jwt[e]) IN
       IF status = NetErr THEN Except(e, t)
       ELSE IF IsSuccess(status)
         THEN /\ trace' = [trace EXCEPT ![e] = t]
              /\ PublishReturn(e, 91, TRUE, session)
              /\ UNCHANGED <<attempt, site>>
       ELSE IF CanReauth(status, attempt[e])
         THEN /\ trace' = [trace EXCEPT ![e] = t]
              /\ site' = [site EXCEPT ![e] = 94]
              /\ pc' = [pc EXCEPT ![e] = "auth_call"]
              /\ UNCHANGED <<attempt, ret, retline, last>>
       ELSE IF Raises(status) THEN Except(e, t)
       ELSE /\ trace' = [trace EXCEPT ![e] = t]
            /\ attempt' = [attempt EXCEPT ![e] = NextAttempt(@)]
            /\ pc' = [pc EXCEPT ![e] = "loop"]
            /\ UNCHANGED <<site, ret, retline, last>>
  /\ UNCHANGED <<jwt, did, pred, session, req, http>>

\* post_to_bluesky, line 103: time.sleep returns, the loop goes on
Wake(e) ==
  /\ pc[e] = "sleeping"
  /\ Scheduled(e)
  /\ attempt' = [attempt EXCEPT ![e] = NextAttempt(@)]
  /\ pc' = [pc EXCEPT ![e] = "loop"]
  /\ UNCHANGED <<site, jwt, did, ret, retline, trace, pred, session, last, req, http>>

\* webhook, lines 186-191: the HTTP response
Respond(e) ==
  /\ pc[e] = "returned"
  /\ Scheduled(e)
  /\ http' = [http EXCEPT ![e] = IF ret[e] THEN 200 ELSE 500]
  /\ pc' = [pc EXCEPT ![e] = "done"]
  /\ DropFrame(e)
  /\ UNCHANGED <<session, last>>

Next ==
  /\ UNCHANGED fvars
  /\ \E e \in Events :
    \/ Arrive(e)
    \/ AfterBody(e)
    \/ AfterJson(e)
    \/ HandleWebhook(e)
    \/ PublishEnter(e)
    \/ AuthSend(e)
    \/ AuthRecv(e)
    \/ ForNext(e)
    \/ ReadCred(e)
    \/ WriteSend(e)
    \/ WriteRecv(e)
    \/ Wake(e)
    \/ Respond(e)

Spec == Init /\ [][Next]_vars

\* what event e does between the call of handle_webhook and the response
Handling(e) ==
  \/ HandleWebhook(e)
  \/ PublishEnter(e)
  \/ AuthSend(e)
  \/ AuthRecv(e)
  \/ ForNext(e)
  \/ ReadCred(e)
  \/ WriteSend(e)
  \/ WriteRecv(e)
  \/ Wake(e)
  \/ Respond(e)

\* Every remote call returns or times out (timeout=self.session_timeout),
\* every time.sleep ends, and the interpreter goes on with a call it started.
LiveSpec == Spec /\ \A e \in Events : WF_vars(Handling(e) /\ UNCHANGED fvars)

\* ------------------------------------------------------ format_post_text
\* def format_post_text(self, title, url, max_length: int = 200)
DefaultMaxLength == 200

ExampleTitle ==
  <<"A", "n", "n", "o", "u", "n", "c", "i", "n", "g", " ", "o", "u", "r",
    " ", "b", "r", "a", "n", "d", " ", "n", "e", "w", " ", "p", "r", "o",
    "d", "u", "c", "t", " ", "l", "a", "u", "n", "c", "h", " ", "e", "v",
    "e", "n", "t">>

ExampleUrl ==
  <<"h", "t", "t", "p", "s", ":", "/", "/", "e", "x", "a", "m", "p", "l",
    "e", ".", "c", "o", "m", "/", "p", "/", "a", "b", "c">>

ExampleOut ==
  <<"A", "n", "n", "o", "u", "n", "c", "i", "n", "g", ".", ".", ".", " ",
    "h", "t", "t", "p", "s", ":", "/", "/", "e", "x", "a", "m", "p", "l",
    "e", ".", "c", "o", "m", "/", "p", "/", "a", "b", "c">>

\* the literal 'New Post' of line 135
NewPost == <<"N", "e", "w", " ", "P", "o", "s", "t">>

\* self.ghost_api_url, an origin that ends with a slash
Base == <<"g", ":", "/", "/", "h", "/">>

Seqs(S, n) == UNION {[1..k -> S] : k \in 0..n}
Rep(c, n) == [i \in 1..n |-> c]

Titles == Seqs({"a", " "}, MaxTitle) \cup {ExampleTitle}
Urls ==
  {Rep("u", n) : n \in 0..MaxUrl} \cup {ExampleUrl}
    \cup {Rep("u", DefaultMaxLength - 9), Rep("u", DefaultMaxLength)}
MaxLengths == 0..MaxLen \cup {40, DefaultMaxLength}

\* mutant: the separating space is not reserved
AvailableNoSpace(url, max_length) == max_length - Len(url)

\* available_chars = max_length - url_length - 1
Available(url, max_length) == max_length - Len(url) - 1

\* mutant: a title of exactly the available length is truncated
FitsStrict(title, available) == Len(title) < available

\* len(title) <= available_chars
Fits(title, available) == Len(title) <= available

\* mutant: too few characters are given up for the dots
TruncLenShort(available) == available - 2

\* available_chars-3
TruncLen(available) == available - 3

\* s[:n] of Python: a negative n counts from the end
Slice(s, n) ==
  IF n >= 0
    THEN SubSeq(s, 1, IF n < Len(s) THEN n ELSE Len(s))
    ELSE SubSeq(s, 1, IF Len(s) + n > 0 THEN Len(s) + n ELSE 0)

\* s.rstrip()
RECURSIVE RStrip(_)
RStrip(s) ==
  IF s # <<>> /\ s[Len(s)] = " " THEN RStrip(SubSeq(s, 1, Len(s) - 1)) ELSE s

\* format_post_text, lines 108-116
format_post_text(title, url, max_length) ==
  LET available_chars == Available(url, max_length) IN
  IF Fits(title, available_chars)
    THEN title \o <<" ">> \o url
    ELSE RStrip(Slice(title, TruncLen(available_chars))) \o <<".", ".", ".", " ">> \o url

\* the path starts with a scheme (letters followed by a colon)
HasScheme(p) ==
  \E i \in 2..Len(p) : p[i] = ":" /\ \A j \in 1..(i - 1) : p[j] \notin {":", "/"}

\* urljoin(self.ghost_api_url, url_path) for a base that ends with a slash
\* and a path that is an absolute url or a slug
UrlJoin(base, p) == IF HasScheme(p) THEN p ELSE base \o p

\* format_post_text is called with some title, url and max_length
FmtInit ==
  /\ BridgeInit
  /\ ftitle \in Titles
  /\ furl \in Urls
  /\ fmax \in MaxLengths
  /\ fout = <<>>
  /\ fpc = "start"

\* a direct call format_post_text(title, url, max_length)
FormatCall ==
  /\ fpc = "start"
  /\ fout' = format_post_text(ftitle, furl, fmax)
  /\ fpc' = "formatted"
  /\ UNCHANGED <<ftitle, furl, fmax, bvars>>

\* handle_webhook, lines 135-148: the title falls back to 'New Post', the
\* path (furl) is joined with the base, and the text is formatted with the
\* default max_length and handed to post_to_bluesky
RouterFormat ==
  /\ fpc = "start"
  /\ furl # <<>>
  /\ ftitle' = (IF ftitle = <<>> THEN NewPost ELSE ftitle)
  /\ furl' = UrlJoin(Base, furl)
  /\ fmax' = DefaultMaxLength
  /\ fout' = format_post_text(ftitle', furl', fmax')
  /\ fpc' = "handed"
  /\ UNCHANGED bvars

FmtNext == FormatCall \/ RouterFormat

FmtSpec == FmtInit /\ [][FmtNext]_vars

\* ------------------------------------------------------------ history views
PublishLines == {69, 91, 95, 105, 106}

\* event e is inside post_to_bluesky, or has just returned from it
InPublish(e) ==
  \/ pc[e] \in {"auth_call", "auth_wait", "loop", "build", "send", "write_wait", "sleeping"}
  \/ pc[e] = "returned" /\ retline[e] \in PublishLines

\* post_to_bluesky has returned and `webhook` has not answered yet
Returned(e) == pc[e] = "returned" /\ retline[e] \in PublishLines

Idx(t, op) == {i \in 1..Len(t) : t[i].op = op}
Writes(t) == Cardinality(Idx(t, "write"))
Auths(t) == Cardinality(Idx(t, "auth"))
Calls(t) == Writes(t) + Auths(t)

RECURSIVE Slept(_)
Slept(t) ==
  IF t = <<>> THEN 0
  ELSE (IF Head(t).op = "sleep" THEN Head(t).res ELSE 0) + Slept(Tail(t))

IsSleep(x) == x.op = "sleep"
Sleeps(t) == SelectSeq(t, IsSleep)

\* C1: a publish call issues at most 3 write requests, whatever the remote
\* service answers.
C1_AtMostThreeWrites ==
  \A e \in Events : Writes(trace[e]) <= 3

C1_Witness ==
  \E e \in Events : Returned(e) /\ Writes(trace[e]) = 3

\* C2 as stated: a publish call that starts with a credential held makes at
\* most 4 remote calls, at most 1 of them a re-authentication and at most 3
\* of them writes.
C2_Original ==
  \A e \in Events :
    (InPublish(e) /\ pred[e].held # 0) =>
      /\ Calls(trace[e]) <= 4
      /\ Auths(trace[e]) <= 1
      /\ Writes(trace[e]) <= 3

\* C2 amended: a publish call that starts with a credential held makes at
\* most 5 remote calls, at most 2 of them re-authentications and at most 3
\* of them writes.
C2_AtMostFiveCalls ==
  \A e \in Events :
    (InPublish(e) /\ pred[e].held # 0) =>
      /\ Calls(trace[e]) <= 5
      /\ Auths(trace[e]) <= 2
      /\ Writes(trace[e]) <= 3

C2_Witness ==
  \E e \in Events :
    /\ Returned(e) /\ pred[e].held # 0
    /\ Calls(trace[e]) = 5 /\ Auths(trace[e]) = 2 /\ Writes(trace[e]) = 3

\* the history starts: write answered 401, authentication answered with a
\* credential, write answered 200
Scenario401Then200(t) ==
  /\ Len(t) >= 3
  /\ t[1].op = "write" /\ t[1].res = 401
  /\ t[2].op = "auth" /\ t[2].res = 200
  /\ t[3].op = "write" /\ t[3].res = 200

\* C3: a publish call that starts with a credential held, gets 401 for its
\* first write, re-authenticates successfully and gets 200 for its second
\* write, returns True after exactly the calls write, auth, write.
C3_ReauthThenDelivered ==
  \A e \in Events :
    (InPublish(e) /\ pred[e].held # 0 /\ Scenario401Then200(trace[e])) =>
      /\ pc[e] = "returned" /\ ret[e] = TRUE
      /\ Len(trace[e]) = 3
      /\ Writes(trace[e]) = 2 /\ Auths(trace[e]) = 1

C3_Witness ==
  \E e \in Events :
    /\ Returned(e) /\ ret[e] = TRUE /\ pred[e].held # 0
    /\ Scenario401Then200(trace[e])

\* every write of the history was answered 500
AllWrites500(t) ==
  /\ Writes(t) >= 1
  /\ \A i \in Idx(t, "write") : t[i].res = 500

\* C4: a publish call whose writes are all answered 500 returns False after
\* exactly 3 writes, having slept at least 3 seconds in total, and without
\* any authentication call when it started with a credential held.
C4_Always500Exhausts ==
  \A e \in Events :
    (Returned(e) /\ AllWrites500(trace[e])) =>
      /\ ret[e] = FALSE
      /\ Writes(trace[e]) = 3
      /\ Slept(trace[e]) >= 1 + 2
      /\ (pred[e].held # 0 => Auths(trace[e]) = 0)

C4_Witness ==
  \E e \in Events :
    /\ Returned(e) /\ AllWrites500(trace[e]) /\ pred[e].held # 0
    /\ Writes(trace[e]) = 3 /\ Slept(trace[e]) = 3

\* the k-th write of the history is at position i
WritesUpTo(t, i) == Cardinality({j \in Idx(t, "write") : j <= i})

\* a write answered by neither 200 nor 401 (another status, or no answer)
GenericFailure(x) == x.op = "write" /\ x.res \notin {200, 401, Pending}

\* C5 as stated: a write answered by neither 200 nor 401 is a generic
\* failure: while retry budget remains the call goes on with a backoff
\* sleep, and no write follows such a failure without a sleep in between.
C5_GenericFailureSleeps ==
  \A e \in Events : \A i \in 1..Len(trace[e]) :
    (GenericFailure(trace[e][i]) /\ WritesUpTo(trace[e], i) < 3) =>
      /\ Len(trace[e]) > i
      /\ trace[e][i + 1].op = "sleep"

\* C6 as stated: the first backoff sleep of a publish call is 1 second and
\* the second is 2 seconds, whatever the remote service answers.
C6_Original ==
  \A e \in Events :
    LET sl == Sleeps(trace[e]) IN
      \A k \in 1..Len(sl) : sl[k].res = 2 ^ (k - 1)

\* C6 amended: the backoff slept after the k-th write of a publish call
\* (every write counts, also one answered 401 and followed by
\* re-authentication) is 2^(k-1) seconds: 1 second before the second write,
\* 2 seconds before the third.
C6_BackoffByAttempt ==
  \A e \in Events : \A i \in Idx(trace[e], "sleep") :
    /\ WritesUpTo(trace[e], i) \in {1, 2}
    /\ trace[e][i].res = 2 ^ (WritesUpTo(trace[e], i) - 1)

C6_Witness ==
  \E e \in Events :
    /\ Len(trace[e]) >= 4
    /\ trace[e][1].op = "write" /\ trace[e][1].res = 401
    /\ trace[e][2].op = "auth" /\ trace[e][2].res = 200
    /\ trace[e][3].op = "write" /\ trace[e][3].res = 500
    /\ trace[e][4].op = "sleep" /\ trace[e][4].res = 2

\* the credential sent with the last write of the history
LastWrite(t) == t[CHOOSE i \in Idx(t, "write") : \A j \in Idx(t, "write") : j <= i]

Exhausted(line) == line \in {105, 106}

\* C8: when a publish call ends with its attempts used up, the credential
\* held afterwards is the one its last write was sent with, and the next
\* publish call starts with a write sent with that credential, without an
\* authentication call before it.
C8_ExhaustedKeepsCredential ==
  \A e \in Events :
    /\ (Returned(e) /\ Exhausted(retline[e])) =>
         /\ ret[e] = FALSE
         /\ session # 0
         /\ session = LastWrite(trace[e]).cred
    /\ (InPublish(e) /\ Exhausted(pred[e].line) /\ trace[e] # <<>>) =>
         /\ trace[e][1].op = "write"
         /\ trace[e][1].cred = pred[e].cred

C8_Witness ==
  \E e \in Events :
    /\ InPublish(e) /\ Exhausted(pred[e].line)
    /\ trace[e] # <<>> /\ trace[e][1].op = "write"

InAuth(e) == pc[e] \in {"auth_call", "auth_wait"}

\* event e has arrived and `webhook` has not answered it yet
InFlight(e) == pc[e] \notin {"new", "done"}

\* C10: with several webhook events in flight, no two of them are in the
\* authenticate-and-store step at once, and the credential an event read for
\* a write is not replaced before that write is sent.
C10_CredentialMutex ==
  \A e \in Events :
    /\ \A o \in Events \ {e} : ~(InAuth(e) /\ InAuth(o))
    /\ pc[e] = "send" => jwt[e] = session
    /\ pc[e] = "write_wait" => jwt[e] = did[e]

C10_Witness ==
  \E e \in Events : \E o \in Events \ {e} :
    /\ pc[e] = "write_wait" /\ InFlight(o)
    /\ Auths(trace[e]) >= 1

\* event e has arrived and its coroutine waits at one of its awaits
Awaiting(e) == pc[e] \in {"await_body", "await_json"}

\* C11 as stated: while one event sleeps between two attempts, another event
\* that has arrived can go on with its own handling.
C11_SleepBlocksOnlyItsEvent ==
  \A e \in Events : \A o \in Events \ {e} :
    (pc[e] = "sleeping" /\ Awaiting(o)) => ENABLED (AfterBody(o) \/ AfterJson(o))

\* handle_webhook has looked at the event of e
Routed(e) == req[e].type # Unread

\* C12: an event whose type is not 'post.published' makes handle_webhook
\* return True at once, with no authentication call, no write and the
\* credential left as it was.
C12_OtherKindsAreNoOps ==
  [][\A e \in Events :
       (pc[e] = "handle" /\ pc'[e] # "handle" /\ req'[e].type # "post.published") =>
         /\ pc'[e] = "returned" /\ ret'[e] = TRUE /\ retline'[e] = 126
         /\ trace'[e] = <<>>
         /\ session' = session /\ last' = last]_vars

C12_Witness ==
  \E e \in Events :
    /\ pc[e] = "returned" /\ req[e].type = "post.unpublished"
    /\ ret[e] = TRUE /\ session # 0

\* the router has rejected the event of e without any remote call
Rejected(e) ==
  /\ pc[e] = "returned" /\ ret[e] = FALSE
  /\ retline[e] \in {132, 140, 157}
  /\ trace[e] = <<>>

Dots == <<".", ".", ".", " ">>

\* the text ends in "... " + url
EndsInDotsUrl(out, url) ==
  /\ Len(out) >= Len(url) + 4
  /\ SubSeq(out, Len(out) - Len(url) - 3, Len(out)) = Dots \o url

\* what the text has before "... " + url
BeforeDots(out, url) == SubSeq(out, 1, Len(out) - Len(url) - 4)

\* p is a prefix of title that does not end in whitespace
TrimmedPrefix(p, title) ==
  /\ Len(p) <= Len(title)
  /\ p = SubSeq(title, 1, Len(p))
  /\ p = <<>> \/ p[Len(p)] # " "

\* C14: when len(title) <= max_length - len(url) - 1, format_post_text
\* returns title + " " + url with the title unchanged.
C14_ShortTitleUnchanged ==
  (fpc = "formatted" /\ Len(ftitle) <= fmax - Len(furl) - 1) =>
    fout = ftitle \o <<" ">> \o furl

C14_Witness ==
  /\ fpc = "formatted"
  /\ Len(ftitle) = fmax - Len(furl) - 1
  /\ Len(ftitle) >= 3 /\ ftitle[Len(ftitle)] = " "
  /\ fout = ftitle \o <<" ">> \o furl

\* what C15 says of the text returned for a long title
TruncatedText ==
  /\ Len(fout) <= fmax
  /\ EndsInDotsUrl(fout, furl)
  /\ TrimmedPrefix(BeforeDots(fout, furl), ftitle)

\* C15 as stated: when len(title) >= max_length - len(url) - 1, the text has
\* at most max_length characters, ends in "... " + url, and has a trimmed
\* prefix of the title before the dots.
C15_Original ==
  (fpc = "formatted" /\ Len(ftitle) >= fmax - Len(furl) - 1) => TruncatedText

\* C15 amended: when len(title) > max_length - len(url) - 1 (strictly above
\* the budget), the text ends in "... " + url and has a trimmed prefix of
\* the title before the dots; it has at most max_length characters when the
\* budget max_length - len(url) - 1 is at least 3, and may be longer when
\* the budget is smaller.
C15_LongTitleTruncated ==
  (fpc = "formatted" /\ Len(ftitle) > fmax - Len(furl) - 1) =>
    /\ EndsInDotsUrl(fout, furl)
    /\ TrimmedPrefix(BeforeDots(fout, furl), ftitle)
    /\ fmax - Len(furl) - 1 >= 3 => Len(fout) <= fmax

C15_Witness ==
  /\ fpc = "formatted"
  /\ Len(ftitle) > fmax - Len(furl) - 1
  /\ fmax - Len(furl) - 1 >= 3
  /\ ftitle # ExampleTitle
  /\ Len(fout) < fmax
  /\ TruncatedText

\* C16 as stated: every text the router hands to publish has at most
\* max_length (200) characters, whatever the lengths of the title and of the
\* resolved url.
C16_DraftWithinMaxLength ==
  fpc = "handed" => Len(fout) <= DefaultMaxLength

\* the call of the example of the specification
ExampleCall ==
  fpc = "formatted" /\ ftitle = ExampleTitle /\ furl = ExampleUrl /\ fmax = 40

\* C17 as stated: the example call has an available budget of 13, keeps the
\* first 10 characters of the title and returns
\* "Announcing... https://example.com/p/abc".
C17_Original ==
  ExampleCall =>
    /\ Available(furl, fmax) = 13
    /\ Len(Slice(ftitle, TruncLen(Available(furl, fmax)))) = 10
    /\ fout = ExampleOut

\* C17 amended: the example call has an available budget of 14 (the url has
\* 25 characters), takes the first 11 characters of the title,
\* "Announcing ", trims them to "Announcing" and returns
\* "Announcing... https://example.com/p/abc".
C17_Example ==
  ExampleCall =>
    /\ fmax - Len(furl) - 1 = 14
    /\ Len(ftitle) > 14
    /\ BeforeDots(fout, furl) = SubSeq(ftitle, 1, 10)
    /\ SubSeq(ftitle, 1, 11) = SubSeq(ftitle, 1, 10) \o <<" ">>
    /\ Len(Slice(ftitle, TruncLen(Available(furl, fmax)))) = 11
    /\ fout = ExampleOut

C17_Witness ==
  ExampleCall /\ fout = ExampleOut

\* C18: every publish call that starts returns an outcome, given that each
\* remote call returns or times out: the call makes at most 6 remote calls
\* and sleeps (a first authentication, then 3 writes, the first two of them
\* followed by at most one re-authentication or sleep), and it reaches a
\* return.
C18_PublishTerminates ==
  /\ [](\A e \in Events : Len(trace[e]) <= 6)
  /\ \A e \in Events : (pc[e] = "publish") ~> (pc[e] = "returned" /\ retline[e] \in PublishLines)

C18_Witness ==
  \E e \in Events :
    /\ Returned(e) /\ Len(trace[e]) = 6
    /\ pred[e].line \in PublishLines

\* every write of the history was answered 401 and every authentication
\* call was answered with a credential
All401AuthOk(t) ==
  /\ Writes(t) >= 1
  /\ \A i \in Idx(t, "write") : t[i].res = 401
  /\ \A i \in Idx(t, "auth") : t[i].res = 200

\* the authentication calls made after a write (re-authentications)
Reauths(t) == Cardinality({i \in Idx(t, "auth") : i > 1})

\* C19: when every write is answered 401 and every re-authentication
\* succeeds, publish makes exactly 3 writes and 2 re-authentications (one
\* after the first and one after the second write, none after the third),
\* never sleeps, and returns False.
C19_Always401 ==
  \A e \in Events :
    (Returned(e) /\ All401AuthOk(trace[e])) =>
      /\ ret[e] = FALSE
      /\ Writes(trace[e]) = 3
      /\ Reauths(trace[e]) = 2
      /\ Idx(trace[e], "sleep") = {}
      /\ trace[e][Len(trace[e])].op = "write"
      /\ \A i \in 1..(Len(trace[e]) - 1) :
           trace[e][i].op = "write" => trace[e][i + 1].op = "auth"

C19_Witness ==
  \E e \in Events :
    /\ Returned(e) /\ All401AuthOk(trace[e]) /\ pred[e].held # 0
    /\ Writes(trace[e]) = 3 /\ Auths(trace[e]) = 2

\* C20: publish returns True exactly when one of its writes was answered
\* 200, and that write is the last thing the call did: no write,
\* authentication call or sleep follows a 200.
C20_SuccessIffLast200 ==
  \A e \in Events :
    /\ Returned(e) =>
         (ret[e] = TRUE <=> \E i \in Idx(trace[e], "write") : trace[e][i].res = 200)
    /\ InPublish(e) =>
         \A i \in Idx(trace[e], "write") :
           trace[e][i].res = 200 =>
             /\ i = Len(trace[e])
             /\ pc[e] = "returned" /\ ret[e] = TRUE

C20_Witness ==
  \E e \in Events :
    /\ Returned(e) /\ ret[e] = TRUE
    /\ Writes(trace[e]) = 3
    /\ trace[e][Len(trace[e])].res = 200
====
